---------------------------- MODULE Spec2Model ----------------------------
(***************************************************************************)
(* guardian.core.ObjectPermissionChecker: the per-object permission        *)
(* checker of django-guardian (has_perm, get_perms, the raw lookup, the    *)
(* per-instance cache and the parent-delegation worklist).                 *)
(*                                                                         *)
(* A Python string with dots is a sequence of its dot-separated segments:  *)
(* "app.view" is <<"app", "view">>.  A Permission row is a record          *)
(* [content_type, codename].  A model instance is a name with a content    *)
(* type and a primary key; two instances may share both.                   *)
(***************************************************************************)
EXTENDS Integers, Sequences, FiniteSets, TLC

(***************************************************************************)
(* Bounds of the model.                                                    *)
(***************************************************************************)
\* The grant store holds at most this many object-permission rows at once.
MaxGrants == 1

\* The grant store fails at most this many times in a run.
MaxFailures == 1

\* The threads that share one checker.
Threads == {"t1", "t2"}

(***************************************************************************)
(* The universe: content types, model instances, registered permissions,   *)
(* users and groups.                                                       *)
(***************************************************************************)
None == "None"

ContentTypes == {"A", "B"}

\* Model instances handed to the checker.  Rows are (A,1), (A,2) and (B,1);
\* several instances may be loaded from one row.
\*   o1 -- row (A,1), without a get_parent_object_permission attribute
\*   o2 -- row (A,2), parent o1
\*   s2 -- row (A,2), its own parent
\*   o3 -- row (B,1), parent o2: the chain o3 -> o2 -> o1
\*   d3, e3 -- row (B,1), parents o2 and o1 in either order: o1 is reached twice
\*   g3, h3 -- row (B,1), parents o1 and s2 in either order: a cycle is reachable
Objs == {"o1", "o2", "s2", "o3", "d3", "e3", "g3", "h3"}

ContentTypeOf(o) == IF o \in {"o1", "o2", "s2"} THEN "A" ELSE "B"

PkOf(o) == IF o \in {"o2", "s2"} THEN 2 ELSE 1

\* hasattr(perm_obj, 'get_parent_object_permission')
HasParentAttr(o) == o # "o1"

\* perm_obj.get_parent_object_permission()
get_parent_object_permission(o) ==
    CASE o = "o2" -> <<"o1">>
      [] o = "s2" -> <<"s2">>
      [] o = "o3" -> <<"o2">>
      [] o = "d3" -> <<"o2", "o1">>
      [] o = "e3" -> <<"o1", "o2">>
      [] o = "g3" -> <<"o1", "s2">>
      [] o = "h3" -> <<"s2", "o1">>

Codenames == {"view", "change"}

\* Permission.objects.all(): the catalog of registered permissions.  "view" is
\* registered for both types, "change" for type A only.
Catalog ==
    [content_type : ContentTypes, codename : Codenames]
        \ {[content_type |-> "B", codename |-> "change"]}

\* The codenames the write path of the model grants; "change" is granted to
\* nobody.
GrantedCodenames == {"view"}

AppLabels == {"app"}

\* Permission strings a caller passes: bare, or prefixed by an app label.
PermStrings ==
    {<<c>> : c \in Codenames}
    \cup {<<a, c>> : a \in AppLabels, c \in GrantedCodenames}

Groups == {"g1", "g2"}

\* user.groups: alice is in g1 only.
UserGroups(u) == IF u = "alice" THEN {"g1"} ELSE {}

\* User instances a caller may hand to the constructor, with their flags.
UserInstances ==
    [name : {"alice"}, is_active : BOOLEAN, is_superuser : BOOLEAN]

\* What a caller may hand to the constructor: a user instance, the anonymous
\* marker, a group, or something else.
Actors ==
    {[kind |-> "User", it |-> u] : u \in UserInstances}
    \cup {[kind |-> "AnonymousUser", it |-> None]}
    \cup {[kind |-> "Group", it |-> "g1"]}
    \cup {[kind |-> "other", it |-> None]}

VARIABLES
    user_obj_perms,     \* UserObjectPermission rows
    group_obj_perms,    \* GroupObjectPermission rows
    constructed,        \* "no" | "ok" | "error": outcome of __init__
    user,               \* self.user (its name), or None
    user_is_active,     \* self.user.is_active
    user_is_superuser,  \* self.user.is_superuser
    group,              \* self.group, or None
    has_cache,          \* whether self._obj_perms_cache has been created
    obj_perms_cache,    \* self._obj_perms_cache: a function from the cached keys to sets of permissions
    pc,                 \* "idle" | "loop" | "done" | "raised"
    op,                 \* the public operation last called
    perm_arg,           \* has_perm's perm as passed
    obj,                \* the obj argument of the call
    filter_arg,         \* get_perms' filter_by_content_type
    perm,               \* has_perm's local perm after line 49
    perm_objs,          \* has_perm's worklist
    has_perm_result,    \* what has_perm returned
    get_perms_result,   \* what get_perms returned
    looked_up,          \* whether the call invoked __get_raw_perms
    enumerated,         \* whether the call invoked get_parent_object_permission()
    prev,               \* <<r, p, e>> when the call follows a has_perm(p, obj) that returned r,
                        \* e telling whether the store was empty when it began; <<>> otherwise
    counting,           \* whether the run keeps the two tallies below
    nlookups,           \* per cache key, how many times __get_raw_perms was invoked for it
    nfailed,            \* per cache key, how many of these invocations raised
    t_pc,               \* per thread inside get_perms: "idle" | "lookup" | "store" | "read" | "done"
    t_obj,              \* per thread, the obj argument of its get_perms call
    t_raw,              \* per thread, its local raw_perms (line 74)
    t_result,           \* per thread, what its get_perms call returned
    interleaved         \* whether a thread has entered get_perms while another was inside

vars ==
    <<user_obj_perms, group_obj_perms, constructed, user, user_is_active,
      user_is_superuser, group, has_cache, obj_perms_cache, pc, op, perm_arg,
      obj, filter_arg, perm, perm_objs, has_perm_result, get_perms_result,
      looked_up, enumerated, prev, counting, nlookups, nfailed, t_pc, t_obj, t_raw,
      t_result, interleaved>>

store == <<user_obj_perms, group_obj_perms>>

identity == <<constructed, user, user_is_active, user_is_superuser, group, has_cache>>

call ==
    <<pc, op, perm_arg, obj, filter_arg, perm, perm_objs, has_perm_result,
      get_perms_result, looked_up, enumerated, prev>>

tally == <<counting, nlookups, nfailed>>

threads == <<t_pc, t_obj, t_raw, t_result, interleaved>>

(***************************************************************************)
(* The parent-delegation graph of the instances.                           *)
(***************************************************************************)
\* The objects one delegation step away from o.
ParentSet(o) ==
    IF HasParentAttr(o)
    THEN {get_parent_object_permission(o)[i] :
            i \in DOMAIN get_parent_object_permission(o)}
    ELSE {}

\* o and everything reachable from it through parent lists.
RECURSIVE ReachFrom(_, _)
ReachFrom(frontier, seen) ==
    IF frontier \subseteq seen THEN seen
    ELSE ReachFrom(UNION {ParentSet(o) : o \in frontier}, seen \cup frontier)

ReachableFrom == [o \in Objs |-> ReachFrom({o}, {})]

Reachable(o) == ReachableFrom[o]

\* The objects from which a cycle of the parent relation can be reached.
CyclicObjs ==
    {o \in Objs :
        \E x \in Reachable(o) : \E y \in ParentSet(x) : x \in Reachable(y)}

CycleReachable(o) == o \in CyclicObjs

(***************************************************************************)
(* get_local_cache_key                                                     *)
(***************************************************************************)
get_local_cache_key(o) == <<ContentTypeOf(o), PkOf(o)>>

Keys == {get_local_cache_key(o) : o \in Objs}

(***************************************************************************)
(* The grant store.  A row is [actor, key, permission]; the write path     *)
(* stores a permission of the object's own content type.                   *)
(***************************************************************************)
Row(a, k, c) ==
    [actor |-> a, key |-> k,
     permission |-> [content_type |-> k[1], codename |-> c]]

UserRows == {Row("alice", k, c) : k \in Keys, c \in GrantedCodenames}

\* g1 may hold a grant on every row; g2, of which alice is no member, on the
\* (A,1) row.
GroupRows ==
    {Row("g1", k, c) : k \in Keys, c \in GrantedCodenames}
    \cup {Row("g2", <<"A", 1>>, c) : c \in GrantedCodenames}

StoreSize == Cardinality(user_obj_perms) + Cardinality(group_obj_perms)

\* Permission.objects.filter(<user obj perm>__user=u, __content_type, __object_pk)
UserPermsQuery(u, k) ==
    {r.permission : r \in {x \in user_obj_perms : x.actor = u /\ x.key = k}}

\* Permission.objects.filter(<group obj perm>__group__user=u, ...)
UserGroupPermsQuery(u, k) ==
    {r.permission :
        r \in {x \in group_obj_perms : x.actor \in UserGroups(u) /\ x.key = k}}

\* GroupPermsQuery without the __group filter: the rows of every group.
GroupPermsQueryAnyGroup(g, k) ==
    {r.permission : r \in {x \in group_obj_perms : x.key = k}}

\* Permission.objects.filter(<group obj perm>__group=g, ...)
GroupPermsQuery(g, k) ==
    {r.permission : r \in {x \in group_obj_perms : x.actor = g /\ x.key = k}}

(***************************************************************************)
(* __get_raw_perms                                                         *)
(***************************************************************************)
\* Whether the lookup evaluates a queryset (the branches after the
\* inactive-user return).
RawPermsQueries == ~(user # None /\ ~user_is_active)

\* get_raw_perms without the group query of the user branch.
get_raw_perms_direct_only(o) ==
    IF user # None /\ ~user_is_active THEN {}
    ELSE IF user # None /\ user_is_superuser THEN Catalog
    ELSE IF user # None THEN UserPermsQuery(user, get_local_cache_key(o))
    ELSE GroupPermsQuery(group, get_local_cache_key(o))

\* get_raw_perms with the superuser test ahead of the is_active test.
get_raw_perms_superuser_first(o) ==
    IF user # None /\ user_is_superuser THEN Catalog
    ELSE IF user # None /\ ~user_is_active THEN {}
    ELSE IF user # None
        THEN UserPermsQuery(user, get_local_cache_key(o))
             \cup UserGroupPermsQuery(user, get_local_cache_key(o))
    ELSE GroupPermsQuery(group, get_local_cache_key(o))

get_raw_perms(o) ==
    IF user # None /\ ~user_is_active THEN {}
    ELSE IF user # None /\ user_is_superuser THEN Catalog
    ELSE IF user # None
        THEN UserPermsQuery(user, get_local_cache_key(o))
             \cup UserGroupPermsQuery(user, get_local_cache_key(o))
    ELSE GroupPermsQuery(group, get_local_cache_key(o))

(***************************************************************************)
(* get_perms: the cache and the content-type filter.                       *)
(***************************************************************************)
\* Cached when the membership test always fails: every call looks up again.
CachedNever(k) == FALSE

\* Cached when the entry is tested for truth instead of membership: an empty
\* entry counts as missing.
CachedNonEmpty(k) == k \in DOMAIN obj_perms_cache /\ obj_perms_cache[k] # {}

\* key in self._obj_perms_cache
Cached(k) == k \in DOMAIN obj_perms_cache

\* CacheAfter when the entry is stored on every call, found or not.
CacheAfterRefresh(o) ==
    [k \in DOMAIN obj_perms_cache \cup {get_local_cache_key(o)} |->
        IF k = get_local_cache_key(o) THEN get_raw_perms(o)
        ELSE obj_perms_cache[k]]

\* self._obj_perms_cache after get_perms(o) (lines 72-75).
CacheAfter(o) ==
    IF Cached(get_local_cache_key(o)) THEN obj_perms_cache
    ELSE [k \in DOMAIN obj_perms_cache \cup {get_local_cache_key(o)} |->
            IF k = get_local_cache_key(o) THEN get_raw_perms(o)
            ELSE obj_perms_cache[k]]

\* CacheAfterRaise when the failure is stored as an empty entry.
CacheAfterRaiseStoresEmpty(o) ==
    [k \in DOMAIN obj_perms_cache \cup {get_local_cache_key(o)} |->
        IF k = get_local_cache_key(o) THEN {} ELSE obj_perms_cache[k]]

\* self._obj_perms_cache after __get_raw_perms(o) raised at line 74: line 75
\* is not reached.
CacheAfterRaise(o) == obj_perms_cache

\* The tally t with one more invocation for key k, in a run that keeps it.
Counted(t, k) == IF counting THEN [t EXCEPT ![k] = @ + 1] ELSE t

RECURSIVE SumOver(_, _)
SumOver(t, S) ==
    IF S = {} THEN 0
    ELSE LET k == CHOOSE x \in S : TRUE
         IN t[k] + SumOver(t, S \ {k})

\* The store can still fail in this run.
StoreMayFail == ~counting \/ SumOver(nfailed, Keys) < MaxFailures

\* Codes without the content-type test of line 80.
CodesUnfiltered(c, o, f) == {p.codename : p \in c[get_local_cache_key(o)]}

\* The codenames get_perms(o, f) returns, read from cache c (lines 77-81).
Codes(c, o, f) ==
    IF f
    THEN {p.codename :
            p \in {q \in c[get_local_cache_key(o)] :
                     q.content_type = ContentTypeOf(o)}}
    ELSE {p.codename : p \in c[get_local_cache_key(o)]}

\* Normalize when the string is not split: the app label stays in front.
NormalizeUnsplit(p) == IF Len(p) = 1 THEN p[1] ELSE p[1] \o "." \o p[Len(p)]

\* Normalize when the first segment is taken: perm.split('.')[0].
NormalizeFirst(p) == p[1]

\* perm.split('.')[-1]
Normalize(p) == p[Len(p)]

(***************************************************************************)
(* Initial states.                                                         *)
(***************************************************************************)
Start ==
    /\ user_obj_perms \in SUBSET UserRows
    /\ group_obj_perms \in SUBSET GroupRows
    /\ StoreSize <= MaxGrants
    /\ constructed = "no"
    /\ user = None
    /\ user_is_active = FALSE
    /\ user_is_superuser = FALSE
    /\ group = None
    /\ has_cache = FALSE
    /\ obj_perms_cache = <<>>
    /\ pc = "idle"
    /\ op = None
    /\ perm_arg = <<>>
    /\ obj = None
    /\ filter_arg = TRUE
    /\ perm = None
    /\ perm_objs = <<>>
    /\ has_perm_result = FALSE
    /\ get_perms_result = {}
    /\ looked_up = FALSE
    /\ enumerated = FALSE
    /\ prev = <<>>
    /\ nlookups = [k \in Keys |-> 0]
    /\ nfailed = [k \in Keys |-> 0]
    /\ t_pc = [t \in Threads |-> "idle"]
    /\ t_obj = [t \in Threads |-> None]
    /\ t_raw = [t \in Threads |-> {}]
    /\ t_result = [t \in Threads |-> {}]
    /\ interleaved = FALSE

Init == Start /\ counting = FALSE

\* The same, in a run that keeps the tallies of the raw lookup.
CountInit == Start /\ counting = TRUE

(***************************************************************************)
(* The write path (external to the checker): rows come and go.             *)
(***************************************************************************)
Grant ==
    /\ StoreSize < MaxGrants
    /\ \/ \E r \in UserRows \ user_obj_perms :
            /\ user_obj_perms' = user_obj_perms \cup {r}
            /\ UNCHANGED group_obj_perms
       \/ \E r \in GroupRows \ group_obj_perms :
            /\ group_obj_perms' = group_obj_perms \cup {r}
            /\ UNCHANGED user_obj_perms
    /\ UNCHANGED <<identity, obj_perms_cache, call, tally, threads>>

Revoke ==
    /\ \/ \E r \in user_obj_perms :
            /\ user_obj_perms' = user_obj_perms \ {r}
            /\ UNCHANGED group_obj_perms
       \/ \E r \in group_obj_perms :
            /\ group_obj_perms' = group_obj_perms \ {r}
            /\ UNCHANGED user_obj_perms
    /\ UNCHANGED <<identity, obj_perms_cache, call, tally, threads>>

(***************************************************************************)
(* __init__                                                                *)
(***************************************************************************)
\* guardian.utils.get_identity: the user and the group, or None when it
\* raises.  The anonymous marker resolves to the anonymous user, who is
\* inactive and no superuser.
get_identity(a) ==
    CASE a.kind = "User" ->
            [user |-> a.it.name, is_active |-> a.it.is_active,
             is_superuser |-> a.it.is_superuser, group |-> None]
      [] a.kind = "AnonymousUser" ->
            [user |-> "anonymous", is_active |-> FALSE,
             is_superuser |-> FALSE, group |-> None]
      [] a.kind = "Group" ->
            [user |-> None, is_active |-> FALSE, is_superuser |-> FALSE,
             group |-> a.it]
      [] OTHER -> [user |-> None, is_active |-> FALSE, is_superuser |-> FALSE,
                   group |-> None]

\* get_identity raises NotUserNorGroup.
IdentityRaises(a) == a.kind \notin {"User", "AnonymousUser", "Group"}

\* Construct when the cache is created ahead of the get_identity call.
ConstructCacheFirst(a) ==
    /\ constructed = "no"
    /\ has_cache' = TRUE
    /\ obj_perms_cache' = <<>>
    /\ IF IdentityRaises(a)
       THEN /\ constructed' = "error"
            /\ UNCHANGED <<user, user_is_active, user_is_superuser, group>>
       ELSE /\ constructed' = "ok"
            /\ user' = get_identity(a).user
            /\ user_is_active' = get_identity(a).is_active
            /\ user_is_superuser' = get_identity(a).is_superuser
            /\ group' = get_identity(a).group
    /\ UNCHANGED <<store, call, tally, threads>>

Construct(a) ==
    /\ constructed = "no"
    /\ IF IdentityRaises(a)
       THEN /\ constructed' = "error"
            /\ UNCHANGED <<user, user_is_active, user_is_superuser, group,
                           has_cache, obj_perms_cache>>
       ELSE /\ constructed' = "ok"
            /\ user' = get_identity(a).user
            /\ user_is_active' = get_identity(a).is_active
            /\ user_is_superuser' = get_identity(a).is_superuser
            /\ group' = get_identity(a).group
            /\ has_cache' = TRUE
            /\ obj_perms_cache' = <<>>
    /\ UNCHANGED <<store, call, tally, threads>>

(***************************************************************************)
(* has_perm                                                                *)
(***************************************************************************)
\* A public method can be called: the checker exists and no call is running.
Callable == constructed = "ok" /\ pc = "idle"

\* The text after the last dot of a permission string.
BareCodename(p) == p[Len(p)]

\* The caller asks again what the has_perm call that has just returned was
\* asked: the same object, the same codename, with or without the app label.
FollowsUp(p, o) ==
    /\ pc = "done"
    /\ op = "has_perm"
    /\ obj = o
    /\ BareCodename(perm_arg) = BareCodename(p)

\* The caller asks has_perm about a codename get_perms has just listed, for
\* the same object: get_perms_result and filter_arg are still those of that
\* answer.
FollowsGetPerms(p, o) ==
    /\ pc = "done"
    /\ op = "get_perms"
    /\ obj = o
    /\ BareCodename(p) \in get_perms_result

\* The caller asks get_perms about the object has_perm has just answered
\* False about: perm_arg and has_perm_result are still those of that answer.
FollowsHasPerm(o) ==
    /\ pc = "done"
    /\ op = "has_perm"
    /\ obj = o
    /\ has_perm_result = FALSE

\* What the call remembers of the has_perm call it follows.
PrevOf(p, o) ==
    IF FollowsUp(p, o)
    THEN <<has_perm_result, perm_arg,
           user_obj_perms = {} /\ group_obj_perms = {}>>
    ELSE <<>>

\* EarlyReturn with the superuser test ahead of the is_active test.
EarlyReturnSuperuserFirst ==
    IF user # None /\ user_is_superuser THEN <<TRUE>>
    ELSE IF user # None /\ ~user_is_active THEN <<FALSE>>
    ELSE <<>>

\* EarlyReturn without the superuser branch: a superuser goes through the loop.
EarlyReturnNoSuperuser ==
    IF user # None /\ ~user_is_active THEN <<FALSE>> ELSE <<>>

\* Lines 50-53: <<FALSE>> or <<TRUE>> when has_perm returns before the loop.
EarlyReturn ==
    IF user # None /\ ~user_is_active THEN <<FALSE>>
    ELSE IF user # None /\ user_is_superuser THEN <<TRUE>>
    ELSE <<>>

\* Lines 49-55, up to the first test of the while loop.
HasPermBegin(p, o) ==
    /\ constructed = "ok"
    /\ (pc = "idle" \/ FollowsUp(p, o) \/ FollowsGetPerms(p, o))
    /\ op' = "has_perm"
    /\ perm_arg' = p
    /\ obj' = o
    /\ prev' = PrevOf(p, o)
    /\ looked_up' = FALSE
    /\ enumerated' = FALSE
    /\ IF EarlyReturn # <<>>
       THEN /\ pc' = "done"
            /\ has_perm_result' = EarlyReturn[1]
            /\ perm' = None
            /\ perm_objs' = <<>>
       ELSE /\ pc' = "loop"
            /\ perm' = Normalize(p)
            /\ perm_objs' = <<o>>
            /\ has_perm_result' = FALSE
    /\ IF FollowsGetPerms(p, o)
       THEN UNCHANGED <<filter_arg, get_perms_result>>
       ELSE filter_arg' = TRUE /\ get_perms_result' = {}
    /\ UNCHANGED <<store, identity, obj_perms_cache, tally, threads>>

\* perm_objs.pop()
Top(s) == s[Len(s)]

\* Pop when the last element is read and left in the list.
PopKeeps(s) == s

Pop(s) == SubSeq(s, 1, Len(s) - 1)

\* Pushed when the parents are never appended.
PushedNoParents(s, o) == Pop(s)

\* Pushed with a visited guard: a parent whose row is in the cache already
\* is not appended.
PushedSkipCached(s, o) ==
    IF HasParentAttr(o)
    THEN Pop(s) \o SelectSeq(get_parent_object_permission(o),
                             LAMBDA x : ~Cached(get_local_cache_key(x)))
    ELSE Pop(s)

\* The worklist after the popped object's parents are appended (lines 61-62).
Pushed(s, o) ==
    IF HasParentAttr(o) THEN Pop(s) \o get_parent_object_permission(o)
    ELSE Pop(s)

\* One turn of the while loop (lines 56-62), and line 63 when the loop ends.
HasPermStep ==
    /\ pc = "loop"
    /\ LET o == Top(perm_objs)
           hit == ~Cached(get_local_cache_key(o))
           found == perm \in Codes(CacheAfter(o), o, FALSE)
           rest == Pushed(perm_objs, o)
       IN /\ obj_perms_cache' = CacheAfter(o)
          /\ looked_up' = (looked_up \/ hit)
          /\ nlookups' = IF hit THEN Counted(nlookups, get_local_cache_key(o))
                         ELSE nlookups
          /\ IF found
             THEN /\ pc' = "done"
                  /\ has_perm_result' = TRUE
                  /\ perm' = None
                  /\ perm_objs' = <<>>
                  /\ UNCHANGED enumerated
             ELSE /\ enumerated' = (enumerated \/ HasParentAttr(o))
                  /\ IF rest = <<>>
                     THEN /\ pc' = "done"
                          /\ has_perm_result' = FALSE
                          /\ perm' = None
                          /\ perm_objs' = <<>>
                     ELSE /\ pc' = "loop"
                          /\ perm_objs' = rest
                          /\ UNCHANGED <<perm, has_perm_result>>
    /\ UNCHANGED <<store, identity, op, perm_arg, obj, filter_arg,
                   get_perms_result, prev, counting, nfailed, threads>>

\* The store fails while the raw lookup of the popped object runs: the
\* exception leaves get_perms and has_perm.
HasPermRaise ==
    /\ pc = "loop"
    /\ ~Cached(get_local_cache_key(Top(perm_objs)))
    /\ RawPermsQueries
    /\ StoreMayFail
    /\ pc' = "raised"
    /\ perm' = None
    /\ perm_objs' = <<>>
    /\ looked_up' = TRUE
    /\ nlookups' = Counted(nlookups, get_local_cache_key(Top(perm_objs)))
    /\ nfailed' = Counted(nfailed, get_local_cache_key(Top(perm_objs)))
    /\ obj_perms_cache' = CacheAfterRaise(Top(perm_objs))
    /\ UNCHANGED <<store, identity, counting, op, perm_arg, obj,
                   filter_arg, has_perm_result, get_perms_result, enumerated,
                   prev, threads>>

(***************************************************************************)
(* get_perms as a public call                                              *)
(***************************************************************************)
GetPerms(o, f) ==
    /\ constructed = "ok"
    /\ (pc = "idle" \/ FollowsHasPerm(o))
    /\ op' = "get_perms"
    /\ obj' = o
    /\ filter_arg' = f
    /\ perm_arg' = IF FollowsHasPerm(o) THEN perm_arg ELSE <<>>
    /\ prev' = <<>>
    /\ enumerated' = FALSE
    /\ looked_up' = ~Cached(get_local_cache_key(o))
    /\ nlookups' = IF Cached(get_local_cache_key(o)) THEN nlookups
                   ELSE Counted(nlookups, get_local_cache_key(o))
    /\ obj_perms_cache' = CacheAfter(o)
    /\ get_perms_result' = Codes(CacheAfter(o), o, f)
    /\ pc' = "done"
    /\ UNCHANGED <<store, identity, perm, perm_objs, has_perm_result, counting,
                   nfailed, threads>>

GetPermsRaise(o, f) ==
    /\ Callable
    /\ ~Cached(get_local_cache_key(o))
    /\ RawPermsQueries
    /\ StoreMayFail
    /\ op' = "get_perms"
    /\ obj' = o
    /\ filter_arg' = f
    /\ perm_arg' = <<>>
    /\ prev' = <<>>
    /\ enumerated' = FALSE
    /\ looked_up' = TRUE
    /\ nlookups' = Counted(nlookups, get_local_cache_key(o))
    /\ nfailed' = Counted(nfailed, get_local_cache_key(o))
    /\ obj_perms_cache' = CacheAfterRaise(o)
    /\ pc' = "raised"
    /\ UNCHANGED <<store, identity, perm, perm_objs, counting,
                   has_perm_result, get_perms_result, threads>>

(***************************************************************************)
(* The caller is done with the outcome of the last call.                   *)
(***************************************************************************)
Continue ==
    /\ pc \in {"done", "raised"}
    /\ pc' = "idle"
    /\ op' = None
    /\ perm_arg' = <<>>
    /\ obj' = None
    /\ filter_arg' = TRUE
    /\ has_perm_result' = FALSE
    /\ get_perms_result' = {}
    /\ looked_up' = FALSE
    /\ enumerated' = FALSE
    /\ prev' = <<>>
    /\ UNCHANGED <<store, identity, obj_perms_cache, perm, perm_objs, tally,
                   threads>>

(***************************************************************************)
(* get_perms line by line, as each of several threads that share the       *)
(* checker runs it: nothing locks self._obj_perms_cache, and another       *)
(* thread may run between any two lines.                                   *)
(***************************************************************************)
\* The objects the threads ask about: o2 and s2 share the row (A,2).
ThreadObjs == {"o1", "o2", "s2"}

\* KeyMissing when the test of line 73 is left out.
KeyMissingAlways(o) == TRUE

\* Line 73: not key in self._obj_perms_cache
KeyMissing(o) == ~Cached(get_local_cache_key(o))

\* Another thread is between its call of get_perms and its return.
OtherInside(t) == \E u \in Threads \ {t} : t_pc[u] \in {"lookup", "store", "read"}

\* Lines 72-73: the call, the key and the membership test.
T_Call(t, o) ==
    /\ constructed = "ok"
    /\ t_pc[t] = "idle"
    /\ t_obj' = [t_obj EXCEPT ![t] = o]
    /\ t_pc' = [t_pc EXCEPT ![t] = IF KeyMissing(o) THEN "lookup" ELSE "read"]
    /\ interleaved' = (interleaved \/ OtherInside(t))
    /\ UNCHANGED <<store, identity, obj_perms_cache, call, tally, t_raw, t_result>>

\* Line 74: raw_perms = self.__get_raw_perms(obj)
T_Lookup(t) ==
    /\ t_pc[t] = "lookup"
    /\ t_raw' = [t_raw EXCEPT ![t] = get_raw_perms(t_obj[t])]
    /\ nlookups' = Counted(nlookups, get_local_cache_key(t_obj[t]))
    /\ t_pc' = [t_pc EXCEPT ![t] = "store"]
    /\ UNCHANGED <<store, identity, obj_perms_cache, call, counting, nfailed,
                   t_obj, t_result, interleaved>>

\* Line 75: self._obj_perms_cache[key] = raw_perms
T_Store(t) ==
    /\ t_pc[t] = "store"
    /\ obj_perms_cache' =
          [k \in DOMAIN obj_perms_cache \cup {get_local_cache_key(t_obj[t])} |->
              IF k = get_local_cache_key(t_obj[t]) THEN t_raw[t]
              ELSE obj_perms_cache[k]]
    /\ t_raw' = [t_raw EXCEPT ![t] = {}]
    /\ t_pc' = [t_pc EXCEPT ![t] = "read"]
    /\ UNCHANGED <<store, identity, call, tally, t_obj, t_result, interleaved>>

\* Lines 77-80: the entry is read and its codenames are returned.
T_Return(t) ==
    /\ t_pc[t] = "read"
    /\ t_result' = [t_result EXCEPT ![t] = Codes(obj_perms_cache, t_obj[t], TRUE)]
    /\ t_pc' = [t_pc EXCEPT ![t] = "done"]
    /\ UNCHANGED <<store, identity, obj_perms_cache, call, tally, t_obj, t_raw,
                   interleaved>>

\* The thread is done with the answer.
T_Continue(t) ==
    /\ t_pc[t] = "done"
    /\ t_pc' = [t_pc EXCEPT ![t] = "idle"]
    /\ t_obj' = [t_obj EXCEPT ![t] = None]
    /\ t_result' = [t_result EXCEPT ![t] = {}]
    /\ UNCHANGED <<store, identity, obj_perms_cache, call, tally, t_raw,
                   interleaved>>

(***************************************************************************)
(* The specification.                                                      *)
(***************************************************************************)
Next ==
    \/ Grant
    \/ Revoke
    \/ \E a \in Actors : Construct(a)
    \/ \E p \in PermStrings, o \in Objs : HasPermBegin(p, o)
    \/ HasPermStep
    \/ HasPermRaise
    \/ \E o \in Objs, f \in BOOLEAN : GetPerms(o, f)
    \/ \E o \in Objs, f \in BOOLEAN : GetPermsRaise(o, f)
    \/ Continue

Spec == Init /\ [][Next]_vars

\* The same program, with the invocations of the raw lookup tallied.
CountSpec == CountInit /\ [][Next]_vars

\* One checker shared by the threads.
ThreadNext ==
    \/ Grant
    \/ Revoke
    \/ \E a \in Actors : Construct(a)
    \/ \E t \in Threads, o \in ThreadObjs : T_Call(t, o)
    \/ \E t \in Threads : T_Lookup(t)
    \/ \E t \in Threads : T_Store(t)
    \/ \E t \in Threads : T_Return(t)
    \/ \E t \in Threads : T_Continue(t)

ThreadSpec == CountInit /\ [][ThreadNext]_vars

\* A has_perm call that is running keeps running: the interpreter goes on
\* to the next turn of the while loop.
FairSpec == Spec /\ WF_vars(HasPermStep)

(***************************************************************************)
(* Vocabulary of the properties.                                           *)
(***************************************************************************)
\* has_perm has returned and its result is in has_perm_result.
HasPermReturned == pc = "done" /\ op = "has_perm"

\* get_perms has returned and its result is in get_perms_result.
GetPermsReturned == pc = "done" /\ op = "get_perms"

InactiveUser == user # None /\ ~user_is_active

ActiveSuperuser == user # None /\ user_is_active /\ user_is_superuser

ActivePlainUser == user # None /\ user_is_active /\ ~user_is_superuser

\* The identities has_perm runs the worklist for.
TraversingIdentity == constructed = "ok" /\ (group # None \/ ActivePlainUser)

\* A row grants codename c on the row of o to user u directly.
DirectGrant(u, o, c) ==
    \E r \in user_obj_perms :
        /\ r.actor = u
        /\ r.key = get_local_cache_key(o)
        /\ r.permission.codename = c

\* A row grants codename c on the row of o to a group u is a member of.
GroupGrant(u, o, c) ==
    \E r \in group_obj_perms :
        /\ r.actor \in UserGroups(u)
        /\ r.key = get_local_cache_key(o)
        /\ r.permission.codename = c

\* The codenames get_perms(x, filter_by_content_type=False) returns now.
SeenCodes(x) == Codes(CacheAfter(x), x, FALSE)

(***************************************************************************)
(* C1.  For a checker bound to a user whose is_active is false, every      *)
(* has_perm call returns, without entering the loop or raising, and        *)
(* returns False: whatever the perm, the object, the is_superuser flag and *)
(* the rows granted to the user or its groups on the object or on its      *)
(* ancestors.                                                              *)
(***************************************************************************)
C1_InactiveVeto ==
    (InactiveUser /\ op = "has_perm") =>
        (pc = "done" /\ has_perm_result = FALSE)

\* An inactive superuser with a direct grant of the very permission asked
\* about, on the very object, has been answered.
C1_Witness ==
    /\ HasPermReturned
    /\ InactiveUser
    /\ user_is_superuser
    /\ DirectGrant(user, obj, BareCodename(perm_arg))
    /\ has_perm_result = FALSE

(***************************************************************************)
(* C2.  For a checker bound to an active superuser, every has_perm call    *)
(* (the permission strings of the model all name catalog permissions)      *)
(* returns True, without a raw lookup and without enumerating any parent.  *)
(***************************************************************************)
C2_SuperuserShortcut ==
    (ActiveSuperuser /\ op = "has_perm") =>
        /\ pc = "done"
        /\ has_perm_result = TRUE
        /\ ~looked_up
        /\ ~enumerated

\* An active superuser has been answered about an object that has parents
\* and no cached entry, with no row in the store.
C2_Witness ==
    /\ HasPermReturned
    /\ ActiveSuperuser
    /\ obj = "o3"
    /\ ~Cached(get_local_cache_key(obj))
    /\ user_obj_perms = {}
    /\ group_obj_perms = {}
    /\ has_perm_result = TRUE

(***************************************************************************)
(* C3.  As claimed: whenever get_perms(O) returns on a checker for a user  *)
(* U, its result holds codename P exactly when a row grants P on O to U    *)
(* directly or to a group U is a member of.                                *)
(***************************************************************************)
\* A step in which a get_perms call is made and returns.
GetPermsStep == pc = "idle" /\ pc' = "done" /\ op' = "get_perms"

\* The result of the returning get_perms call is the union of the direct and
\* the group grants on its object, as the store holds them during the step.
UnionOfGrants ==
    \A c \in Codenames :
        (c \in get_perms_result') <=>
            (DirectGrant(user, obj', c) \/ GroupGrant(user, obj', c))

RepeatedCall == op = "has_perm" /\ prev # <<>> /\ prev[2] = perm_arg

C4_IdempotentCache ==
    RepeatedCall =>
        /\ pc # "raised"
        /\ ~looked_up
        /\ (pc = "done" => has_perm_result = prev[1])

\* A repeated call has walked up to an ancestor and returned True again.
C4_Witness ==
    /\ HasPermReturned
    /\ RepeatedCall
    /\ TraversingIdentity
    /\ enumerated
    /\ prev[1] = TRUE
    /\ has_perm_result = TRUE

(***************************************************************************)
(* C5.  Whatever rows come and go after has_perm(perm1, object1) returned, *)
(* has_perm(perm1, object1) on the same checker returns the same again;    *)
(* and no step replaces or removes an entry of the cache.                  *)
(***************************************************************************)
SameAnswerAgain ==
    (HasPermReturned /\ RepeatedCall) => has_perm_result = prev[1]

CacheEntriesKept ==
    \A k \in DOMAIN obj_perms_cache :
        /\ k \in DOMAIN obj_perms_cache'
        /\ obj_perms_cache'[k] = obj_perms_cache[k]

C5_Staleness == []SameAnswerAgain /\ [][CacheEntriesKept]_vars

\* The first call returned True; the repeated call began when the store held
\* no row at all, and returned True.
C5_Witness ==
    /\ HasPermReturned
    /\ RepeatedCall
    /\ TraversingIdentity
    /\ prev[1] = TRUE
    /\ prev[3]
    /\ has_perm_result = TRUE

(***************************************************************************)
(* C6.  On an object from which no cycle of the parent relation can be     *)
(* reached, has_perm(P, O) of a group or of an active user who is no       *)
(* superuser returns True exactly when P is among the unfiltered codenames *)
(* of O or of an object reachable from O through parent lists.  The right  *)
(* side does not mention the order of any parent list.                     *)
(***************************************************************************)
C6_AncestorSatisfaction ==
    (HasPermReturned /\ TraversingIdentity /\ ~CycleReachable(obj)) =>
        (has_perm_result <=>
            \E x \in Reachable(obj) : BareCodename(perm_arg) \in SeenCodes(x))

\* The chain o3 -> o2 -> o1 with the permission on o1 only: True.
C6_Witness ==
    /\ HasPermReturned
    /\ TraversingIdentity
    /\ obj = "o3"
    /\ BareCodename(perm_arg) \notin SeenCodes("o3")
    /\ BareCodename(perm_arg) \notin SeenCodes("o2")
    /\ BareCodename(perm_arg) \in SeenCodes("o1")
    /\ has_perm_result = TRUE

(***************************************************************************)
(* C7.  A has_perm call on an object from which no cycle of the parent     *)
(* relation can be reached comes to an end.                                *)
(***************************************************************************)
C7_Termination == (pc = "loop" /\ ~CycleReachable(obj)) ~> (pc # "loop")

\* has_perm has returned False on e3, whose parents o1 and o2 both lead to
\* o1: o1 was pushed twice, and every row was looked at.
C7_Witness ==
    /\ HasPermReturned
    /\ TraversingIdentity
    /\ obj = "e3"
    /\ enumerated
    /\ \A x \in Reachable("e3") : Cached(get_local_cache_key(x))
    /\ has_perm_result = FALSE

(***************************************************************************)
(* C8.  As claimed: a has_perm call of a group or of an active user who is *)
(* no superuser, on an object from which a cycle of the parent relation    *)
(* can be reached, never returns.                                          *)
(***************************************************************************)
C8_NeverReturnsAsClaimed ==
    (op = "has_perm" /\ TraversingIdentity /\ CycleReachable(obj)) =>
        pc # "done"

(***************************************************************************)
(* C8, amended.  Such a call never returns False: when it returns, it      *)
(* returns True, having found the permission in the cached entry of an     *)
(* object reachable from obj.  The loop has no other exit.                 *)
(***************************************************************************)
C8_CycleNeverReturnsFalse ==
    (HasPermReturned /\ TraversingIdentity /\ CycleReachable(obj)) =>
        /\ has_perm_result = TRUE
        /\ \E x \in Reachable(obj) :
              /\ Cached(get_local_cache_key(x))
              /\ BareCodename(perm_arg) \in Codes(obj_perms_cache, x, FALSE)

\* has_perm on g3 popped s2, which is its own parent, found the permission
\* there and returned True; o1 was never looked at.
C8_Witness ==
    /\ HasPermReturned
    /\ TraversingIdentity
    /\ obj = "g3"
    /\ Cached(get_local_cache_key("s2"))
    /\ ~Cached(get_local_cache_key("o1"))
    /\ has_perm_result = TRUE

(***************************************************************************)
(* C9.  A has_perm call that follows a returned has_perm call on the same  *)
(* object, with the same text after the last dot and the other spelling    *)
(* (with the app label instead of without, or the reverse), returns what   *)
(* that call returned.                                                     *)
(***************************************************************************)
\* The call follows one that spelled the same codename the other way.
OtherSpelling ==
    /\ op = "has_perm"
    /\ prev # <<>>
    /\ prev[2] # perm_arg
    /\ BareCodename(prev[2]) = BareCodename(perm_arg)

C9_PrefixTolerance ==
    (HasPermReturned /\ OtherSpelling) => has_perm_result = prev[1]

\* "app.view" was answered True after a traversal, and then "view" was.
C9_Witness ==
    /\ HasPermReturned
    /\ OtherSpelling
    /\ TraversingIdentity
    /\ prev[2] = <<"app", "view">>
    /\ perm_arg = <<"view">>
    /\ enumerated
    /\ has_perm_result = TRUE

(***************************************************************************)
(* C10.  A constructed checker holds exactly one of user and group, and    *)
(* its cache exists and is empty when the constructor returns.  When the   *)
(* constructor raises, user and group are unset, the cache does not exist  *)
(* and no method ever runs.                                                *)
(***************************************************************************)
OneIdentity ==
    /\ constructed = "ok" => (has_cache /\ ((user = None) # (group = None)))
    /\ constructed = "no" => ~has_cache
    /\ constructed = "error" =>
          /\ ~has_cache
          /\ user = None
          /\ group = None
          /\ pc = "idle"
          /\ op = None

EmptyCacheAtConstruction ==
    (constructed = "no" /\ constructed' = "ok") =>
        (has_cache' /\ obj_perms_cache' = <<>>)

C10_Construction == []OneIdentity /\ [][EmptyCacheAtConstruction]_vars

\* The constructor was handed something that is no user, anonymous marker
\* or group, and raised.
C10_Witness == constructed = "error" /\ ~has_cache /\ user = None /\ group = None

(***************************************************************************)
(* C11.  As claimed: over any sequence of has_perm and get_perms calls on  *)
(* one checker, the raw lookup is invoked at most once for each cache key. *)
(***************************************************************************)
C11_AtMostOnceAsClaimed == \A k \in Keys : nlookups[k] <= 1

(***************************************************************************)
(* C11, amended.  For each cache key at most one invocation of the raw     *)
(* lookup returns, whatever the calls, their permissions and their filter  *)
(* settings; every other invocation for the key raised.  The tally is kept *)
(* by key, so instances that share a (type, pk) share the one lookup.      *)
(***************************************************************************)
C11_OneReturningLookupPerKey ==
    \A k \in Keys : nlookups[k] - nfailed[k] <= 1

\* get_perms on s2, whose row (A,2) it shares with o2, was answered from the
\* cache; the row was looked up once, and has_perm on h3 and get_perms with
\* either filter setting would find it there too.
C11_Witness ==
    /\ GetPermsReturned
    /\ obj = "s2"
    /\ ~looked_up
    /\ nlookups[get_local_cache_key("o2")] = 1
    /\ nfailed[get_local_cache_key("o2")] = 0

(***************************************************************************)
(* C12.  For a checker bound to a user whose is_active is false, get_perms *)
(* returns the empty collection for every object and either filter         *)
(* setting, the user being a superuser or not and rows granting it or its  *)
(* groups a permission on the object or not; and the entry the cache holds *)
(* for the object is the empty one.                                        *)
(***************************************************************************)
C12_InactiveGetPermsEmpty ==
    (InactiveUser /\ GetPermsReturned) =>
        /\ get_perms_result = {}
        /\ Cached(get_local_cache_key(obj))
        /\ obj_perms_cache[get_local_cache_key(obj)] = {}

\* An inactive superuser with a direct grant on the object: the raw lookup
\* ran, and get_perms answered with nothing.
C12_Witness ==
    /\ GetPermsReturned
    /\ InactiveUser
    /\ user_is_superuser
    /\ looked_up
    /\ DirectGrant(user, obj, "view")
    /\ get_perms_result = {}
    /\ obj_perms_cache[get_local_cache_key(obj)] = {}

(***************************************************************************)
(* C13.  For a checker bound to an active superuser, the entry get_perms   *)
(* caches for an object is the whole catalog of registered permissions,    *)
(* whatever rows the store holds; and get_perms(obj), with the type filter *)
(* on, returns exactly the codenames of the catalog permissions whose      *)
(* content type is the type of obj.                                        *)
(***************************************************************************)
\* The codenames registered for content type t.
CatalogCodenames(t) == {p.codename : p \in {q \in Catalog : q.content_type = t}}

C13_SuperuserCatalog ==
    (ActiveSuperuser /\ GetPermsReturned) =>
        /\ obj_perms_cache[get_local_cache_key(obj)] = Catalog
        /\ filter_arg => get_perms_result = CatalogCodenames(ContentTypeOf(obj))

\* A superuser asked about o3, of type B, while the store held a row: the
\* answer is "view", the one codename registered for B, and not "change",
\* which the cached catalog holds for type A.
C13_Witness ==
    /\ GetPermsReturned
    /\ ActiveSuperuser
    /\ obj = "o3"
    /\ filter_arg
    /\ looked_up
    /\ user_obj_perms \cup group_obj_perms # {}
    /\ get_perms_result = {"view"}
    /\ "change" \in Codes(obj_perms_cache, obj, FALSE)

(***************************************************************************)
(* C14.  For a checker bound to a group G, a get_perms(O) call that finds  *)
(* no cache entry for the row of O returns codename P exactly when a row   *)
(* grants P on the (type, pk) of O to G itself: rows of users, of other    *)
(* groups and on other objects do not count.  And a has_perm call of such  *)
(* a checker goes into the worklist loop: it does not return before it.    *)
(***************************************************************************)
\* A row grants codename c on the row of o to group g itself.
GrantToGroup(g, o, c) ==
    \E r \in group_obj_perms :
        /\ r.actor = g
        /\ r.key = get_local_cache_key(o)
        /\ r.permission.codename = c

\* The returning get_perms call of a group's checker looked up the rows of
\* the group on its object.
OwnGrantsOnly ==
    (GetPermsStep /\ group # None /\ ~Cached(get_local_cache_key(obj'))) =>
        \A c \in Codenames :
            (c \in get_perms_result') <=> GrantToGroup(group, obj', c)

\* A step in which has_perm is called.
HasPermCallStep ==
    /\ pc \in {"idle", "done"}
    /\ op' = "has_perm"
    /\ UNCHANGED store

NoShortCircuit == (HasPermCallStep /\ group # None) => pc' = "loop"

C14_GroupLookup == [][OwnGrantsOnly]_vars /\ [][NoShortCircuit]_vars

\* The checker of g1 looked up o1 while g2 held "view" on that very row, and
\* answered with nothing.
C14_Witness ==
    /\ GetPermsReturned
    /\ group = "g1"
    /\ looked_up
    /\ GrantToGroup("g2", obj, "view")
    /\ get_perms_result = {}

(***************************************************************************)
(* C15.  When the store fails during the raw lookup for an object, the     *)
(* call (get_perms, or has_perm around it) ends with the exception and     *)
(* delivers no result; the cache is left as it was, with no entry for the  *)
(* key of the object and every other entry untouched.  An entry that is    *)
(* cached for the key later comes from a further invocation of the raw     *)
(* lookup, not from a failed one.                                          *)
(***************************************************************************)
\* The raw lookup for key k raises in this step.
LookupFails(k) == nfailed'[k] > nfailed[k]

FailurePropagates ==
    \A k \in Keys :
        LookupFails(k) =>
            /\ pc' = "raised"
            /\ ~Cached(k)
            /\ obj_perms_cache' = obj_perms_cache
            /\ has_perm_result' = has_perm_result
            /\ get_perms_result' = get_perms_result

\* A cached entry was stored by an invocation that came after every failed
\* one for its key.
NoCachedFailure ==
    \A k \in Keys : Cached(k) => nlookups[k] = nfailed[k] + 1

C15_StoreFailure == [][FailurePropagates]_vars /\ []NoCachedFailure

\* The lookup of o2's row raised once; a later has_perm on o3 looked the row
\* up again and found the permission there.
C15_Witness ==
    /\ HasPermReturned
    /\ obj = "o3"
    /\ nfailed[get_local_cache_key("o2")] = 1
    /\ nlookups[get_local_cache_key("o2")] = 2
    /\ Cached(get_local_cache_key("o3"))
    /\ Cached(get_local_cache_key("o2"))
    /\ BareCodename(perm_arg) \notin Codes(obj_perms_cache, "o3", FALSE)
    /\ BareCodename(perm_arg) \in Codes(obj_perms_cache, "o2", FALSE)
    /\ has_perm_result = TRUE

(***************************************************************************)
(* C17.  On one checker, a codename P that get_perms(O) returned and the   *)
(* answer of has_perm(P, O) agree, in either order of the two calls and    *)
(* whatever rows came and went between them: a has_perm(P, O) that follows *)
(* returns True, at its first look at O and without a raw lookup; and a    *)
(* get_perms(O) that follows a has_perm(P, O) returns P only when that     *)
(* has_perm returned True.                                                 *)
(***************************************************************************)
\* has_perm follows a get_perms on its object that returned its codename.
AskedWhatWasListed ==
    op = "has_perm" /\ BareCodename(perm_arg) \in get_perms_result

HasPermAgrees ==
    AskedWhatWasListed =>
        /\ ~looked_up
        /\ \/ pc = "done" /\ has_perm_result = TRUE
           \/ pc = "loop" /\ perm_objs = <<obj>>

\* get_perms follows a has_perm on its object and returns its codename.
ListedWhatWasAsked ==
    /\ GetPermsReturned
    /\ perm_arg # <<>>
    /\ BareCodename(perm_arg) \in get_perms_result

GetPermsAgrees == ListedWhatWasAsked => has_perm_result = TRUE

C17_Consistency == HasPermAgrees /\ GetPermsAgrees

\* get_perms listed "view" for the object; the row was revoked and the store
\* was empty when has_perm was asked about "app.view", and it answered True.
C17_Witness ==
    /\ HasPermReturned
    /\ TraversingIdentity
    /\ get_perms_result = {"view"}
    /\ perm_arg = <<"app", "view">>
    /\ user_obj_perms = {}
    /\ group_obj_perms = {}
    /\ has_perm_result = TRUE

(***************************************************************************)
(* C16.  With two threads on one checker the test of line 73 and the       *)
(* assignment of line 75 are separate steps: both threads can find the key *)
(* missing and both invoke the raw lookup, and the second assignment       *)
(* replaces the entry of the first.  A key is looked up twice, or an entry *)
(* is replaced, only after a thread has entered get_perms while another    *)
(* was inside it.                                                          *)
(***************************************************************************)
LookedUpTwice == \E k \in Keys : nlookups[k] > 1

EntryReplaced ==
    \E k \in DOMAIN obj_perms_cache : obj_perms_cache'[k] # obj_perms_cache[k]

C16_OnlyWhenInterleaved ==
    [](LookedUpTwice => interleaved) /\ [][EntryReplaced => interleaved]_vars

\* t1 was answered "view" for the row (A,2); the row has been looked up
\* twice, and the entry the cache holds for it now is the empty one that
\* the other thread stored after the grant was revoked.
C16_Witness ==
    /\ t_pc["t1"] = "done"
    /\ t_obj["t1"] = "o2"
    /\ t_result["t1"] = {"view"}
    /\ nlookups[get_local_cache_key("o2")] = 2
    /\ Cached(get_local_cache_key("o2"))
    /\ obj_perms_cache[get_local_cache_key("o2")] = {}

=============================================================================
